---------------------------- MODULE Spec2Model ----------------------------
(***************************************************************************)
(* A model of PILFont.py: the PIL bitmap-font metrics codec.               *)
(*                                                                         *)
(* A byte is a number in 0..255, a bytes object a sequence of bytes.  A    *)
(* Python None is the empty sequence <<>> and a present value x is <<x>>.  *)
(* The storage is two maps from paths to optional contents: fs holds the   *)
(* metrics files, imgfs the atlas images (as opaque pixel tokens).         *)
(* load and save run in steps, one per with-block boundary, so that the    *)
(* open handles are part of the state.                                     *)
(***************************************************************************)
EXTENDS Integers, Sequences, FiniteSets, TLC

VARIABLES fs, imgfs, font, handles, pc, frame, ops,
          origin, loadedFrom, imgSaveCalls

vars == <<fs, imgfs, font, handles, pc, frame, ops,
          origin, loadedFrom, imgSaveCalls>>

----------------------------------------------------------------------------
(* Bounds of the model.                                                    *)

\* The longest glyph table drawn for an in-memory Font or a small file.
MaxGlyphs == 2
\* The number of load / save / [] calls of one behaviour.
MaxOps == 2
\* Font[index] is called with every index in -MaxIndex..MaxIndex.
MaxIndex == 2

----------------------------------------------------------------------------
(* Program constants.                                                      *)

\* b"PILfont\n;;;;;;"
MAGIC == <<80, 73, 76, 102, 111, 110, 116, 10, 59, 59, 59, 59, 59, 59>>
\* b";\nDATA\n"
DATA == <<59, 10, 68, 65, 84, 65, 10>>
\* f.read(2)
YSIZE_READ == 2
\* f.read(20), the size of "!10h"
RECORD_SIZE == 20
\* the values of one byte: i.to_bytes(1, "little")
CHAR_LIMIT == 256
\* the range of a struct "h"
SHORT_MIN == -32768
SHORT_MAX == 32767
SHORT_MOD == 65536

None == <<>>
Some(x) == <<x>>

Min(a, b) == IF a < b THEN a ELSE b

----------------------------------------------------------------------------
(* Exceptions.  Every exception is a record of the same shape; seek,       *)
(* expected and actual are what the message of _check_header carries.      *)

Exc(type) == [type |-> type, seek |-> 0, expected |-> <<>>, actual |-> <<>>]
NoExc == Exc("none")

PILFontParsingError(seek, expected, actual) ==
    [type |-> "PILFontParsingError", seek |-> seek,
     expected |-> expected, actual |-> actual]

----------------------------------------------------------------------------
(* Python built-ins the codec uses.                                        *)

RECURSIVE Digits(_)
Digits(n) ==
    IF n < 10 THEN <<48 + n>> ELSE Digits(n \div 10) \o <<48 + (n % 10)>>

\* str(n).encode("utf-8") of an int
Str(n) == IF n < 0 THEN <<45>> \o Digits(-n) ELSE Digits(n)

IsDigit(b) == b \in 48..57
\* Py_ISSPACE: space, \t, \n, \v, \f, \r
IsSpace(b) == b \in {32, 9, 10, 11, 12, 13}
IsSign(b) == b \in {43, 45}

RECURSIVE LStrip(_)
LStrip(bs) ==
    IF bs # <<>> /\ IsSpace(Head(bs)) THEN LStrip(Tail(bs)) ELSE bs

RECURSIVE RStrip(_)
RStrip(bs) ==
    IF bs # <<>> /\ IsSpace(bs[Len(bs)])
    THEN RStrip(SubSeq(bs, 1, Len(bs) - 1))
    ELSE bs

\* digits with single underscores between them
IsDigitString(bs) ==
    /\ bs # <<>>
    /\ IsDigit(bs[1])
    /\ IsDigit(bs[Len(bs)])
    /\ \A k \in 1..Len(bs) : IsDigit(bs[k]) \/ bs[k] = 95
    /\ \A k \in 1..(Len(bs) - 1) : ~(bs[k] = 95 /\ bs[k + 1] = 95)

RECURSIVE DigitsValue(_, _)
DigitsValue(bs, acc) ==
    IF bs = <<>> THEN acc
    ELSE IF Head(bs) = 95 THEN DigitsValue(Tail(bs), acc)
    ELSE DigitsValue(Tail(bs), 10 * acc + (Head(bs) - 48))

\* a variant of PyInt that takes digits only: no blanks, no sign
PyIntDigitsOnly(bs) ==
    IF bs # <<>> /\ \A k \in 1..Len(bs) : IsDigit(bs[k])
    THEN [ok |-> TRUE, value |-> DigitsValue(bs, 0)]
    ELSE [ok |-> FALSE, value |-> 0]

\* int(bs) of a bytes object, base 10: [ok, value]
PyInt(bs) ==
    LET s == RStrip(LStrip(bs))
        signed == s # <<>> /\ IsSign(s[1])
        body == IF signed THEN Tail(s) ELSE s
    IN  IF IsDigitString(body)
        THEN [ok |-> TRUE,
              value |-> IF signed /\ s[1] = 45
                        THEN 0 - DigitsValue(body, 0)
                        ELSE DigitsValue(body, 0)]
        ELSE [ok |-> FALSE, value |-> 0]

\* a variant of PackShort with the low byte first
PackShortLittleEndian(v) == <<v % 256, (v % SHORT_MOD) \div 256>>

\* one "h" of struct.pack("!..."): big-endian two's complement
PackShort(v) == <<(v % SHORT_MOD) \div 256, v % 256>>

\* one "h" of struct.unpack("!...")
UnpackShort(hi, lo) ==
    LET u == hi * 256 + lo
    IN  IF u > SHORT_MAX THEN u - SHORT_MOD ELSE u

InShort(v) == SHORT_MIN <= v /\ v <= SHORT_MAX

RECURSIVE PackShorts(_)
PackShorts(vals) ==
    IF vals = <<>> THEN <<>>
    ELSE PackShort(Head(vals)) \o PackShorts(Tail(vals))

\* struct.pack("!10h", *vals): [ok, bytes]
Pack10h(vals) ==
    IF Len(vals) = 10 /\ \A k \in 1..Len(vals) : InShort(vals[k])
    THEN [ok |-> TRUE, bytes |-> PackShorts(vals)]
    ELSE [ok |-> FALSE, bytes |-> <<>>]

\* struct.unpack("!10h", raw): [ok, vals]
Unpack10h(raw) ==
    IF Len(raw) = RECORD_SIZE
    THEN [ok |-> TRUE,
          vals |-> [k \in 1..10 |-> UnpackShort(raw[2 * k - 1], raw[2 * k])]]
    ELSE [ok |-> FALSE, vals |-> <<>>]

\* i.to_bytes(1, "little"): [ok, bytes]
ToBytes1(i) ==
    IF 0 <= i /\ i < CHAR_LIMIT
    THEN [ok |-> TRUE, bytes |-> <<i>>]
    ELSE [ok |-> FALSE, bytes |-> <<>>]

\* list[index]: [ok, value]
ListGetItem(list, index) ==
    LET k == IF index < 0 THEN index + Len(list) ELSE index
    IN  IF 0 <= k /\ k < Len(list)
        THEN [ok |-> TRUE, value |-> Some(list[k + 1])]
        ELSE [ok |-> FALSE, value |-> None]

\* fp.read(n) at position pos of a file holding content
Read(content, pos, n) == SubSeq(content, pos + 1, Min(pos + n, Len(content)))


----------------------------------------------------------------------------
(* The codec.                                                              *)

\* Glyph(character, delta, src_bbox, dst_bbox): the dataclass constructor
Glyph(character, delta, src_bbox, dst_bbox) ==
    [character |-> character, delta |-> delta,
     src_bbox |-> src_bbox, dst_bbox |-> dst_bbox]

\* a variant of GlyphIter in the order of the fields of the dataclass
GlyphIterSrcFirst(g) == g.delta \o g.src_bbox \o g.dst_bbox

\* Glyph.__iter__: (*self.delta, *self.dst_bbox, *self.src_bbox)
GlyphIter(g) == g.delta \o g.dst_bbox \o g.src_bbox

\* PILFont(atlas, ysize, glyphs): the dataclass constructor
PILFont(atlas, ysize, glyphs) ==
    [atlas |-> atlas, ysize |-> ysize, glyphs |-> glyphs]

\* a variant of CheckHeader that takes fp.tell() after the read
CheckHeaderSeekAfter(content, pos, expected) ==
    LET actual == Read(content, pos, Len(expected))
    IN  [pos |-> pos + Len(actual),
         exc |-> IF actual # expected
                 THEN PILFontParsingError(pos + Len(actual), expected, actual)
                 ELSE NoExc]

\* _check_header(fp, expected) with fp at pos: the position after the read,
\* and the exception raised, if any
CheckHeader(content, pos, expected) ==
    LET seek == pos
        actual == Read(content, pos, Len(expected))
    IN  [pos |-> pos + Len(actual),
         exc |-> IF actual # expected
                 THEN PILFontParsingError(seek, expected, actual)
                 ELSE NoExc]

\* the loop of load: for i, raw_glyph in enumerate(iter(lambda: f.read(20), b""))
\* with f at pos.  Chunk i is what the i-th f.read(20) returns; the loop
\* runs over the non-empty chunks and stops at the first one that raises:
\* struct.unpack on a short chunk, else i.to_bytes(1, "little").
LoadLoop(content, pos) ==
    LET left == Len(content) - pos
        chunks == (left + RECORD_SIZE - 1) \div RECORD_SIZE
        raw_glyph(i) == Read(content, pos + RECORD_SIZE * i, RECORD_SIZE)
        raises(i) == ~Unpack10h(raw_glyph(i)).ok \/ ~ToBytes1(i).ok
        bad == {i \in 0..(chunks - 1) : raises(i)}
        stop == IF bad = {} THEN chunks
                ELSE CHOOSE i \in bad : \A j \in bad : i <= j
        decoded(i) ==
            LET v == Unpack10h(raw_glyph(i)).vals
            IN  Glyph(ToBytes1(i).bytes,
                      <<v[1], v[2]>>,
                      <<v[7], v[8], v[9], v[10]>>,
                      <<v[3], v[4], v[5], v[6]>>)
    IN  [exc |-> IF bad = {} THEN NoExc
                 ELSE IF ~Unpack10h(raw_glyph(stop)).ok
                 THEN Exc("struct.error")
                 ELSE Exc("OverflowError"),
         glyphs |-> [k \in 1..stop |-> decoded(k - 1)]]

\* the body of "with open(metrics_path, "rb") as f" in load, on a file
\* holding content: the exception raised, if any, and the locals
LoadBody(content) ==
    LET h1 == CheckHeader(content, 0, MAGIC)
        ytext == Read(content, h1.pos, YSIZE_READ)
        y == PyInt(ytext)
        h2 == CheckHeader(content, h1.pos + Len(ytext), DATA)
        loop == LoadLoop(content, h2.pos)
    IN  IF h1.exc # NoExc
        THEN [exc |-> h1.exc, ysize |-> 0, glyphs |-> <<>>]
        ELSE IF ~y.ok
        THEN [exc |-> Exc("ValueError"), ysize |-> 0, glyphs |-> <<>>]
        ELSE IF h2.exc # NoExc
        THEN [exc |-> h2.exc, ysize |-> y.value, glyphs |-> <<>>]
        ELSE [exc |-> loop.exc, ysize |-> y.value, glyphs |-> loop.glyphs]

\* the loop of save: for i, glyph in enumerate(self.glyphs), after the
\* bytes already written.  It stops at the first glyph struct.pack refuses;
\* the records before it are written.
SaveLoop(glyphs, written) ==
    LET packed(k) == Pack10h(GlyphIter(glyphs[k]))
        bad == {k \in 1..Len(glyphs) : ~packed(k).ok}
        done == IF bad = {} THEN Len(glyphs)
                ELSE (CHOOSE k \in bad : \A j \in bad : k <= j) - 1
    IN  [exc |-> IF bad = {} THEN NoExc ELSE Exc("struct.error"),
         bytes |-> written \o
                   [b \in 1..(RECORD_SIZE * done) |->
                      packed(((b - 1) \div RECORD_SIZE) + 1).bytes[
                          ((b - 1) % RECORD_SIZE) + 1]]]

\* the body of "with open(metrics_path, "wb+") as fp" in save: the
\* exception raised, if any, and the bytes written before it
SaveBody(self) ==
    SaveLoop(self.glyphs, MAGIC \o Str(self.ysize) \o DATA)

\* a variant of GetItem without the negative indexes of a list
GetItemNoWrap(self, index) ==
    IF 0 <= index /\ index < Len(self.glyphs)
    THEN [ok |-> TRUE, value |-> Some(self.glyphs[index + 1])]
    ELSE [ok |-> FALSE, value |-> None]

\* PILFont.__getitem__: self.glyphs[index]
GetItem(self, index) == ListGetItem(self.glyphs, index)

----------------------------------------------------------------------------
(* The image backend: an image object is its pixels and the file it is     *)
(* reading from, if it still holds one open.                               *)

\* Image.open(path) of a file holding pixels
ImageOpen(path, pixels) == [pixels |-> pixels, fp |-> Some(path)]

\* Image.copy(): the pixels in memory, no file
ImageCopy(im) == [pixels |-> im.pixels, fp |-> None]

ImageHandle(path) == [kind |-> "image", path |-> path]
FileHandle(path) == [kind |-> "file", path |-> path]

\* a variant of WithExit that closes on a normal exit only
CloseUnlessRaised(open, h, exc) == IF exc = NoExc THEN open \ {h} ELSE open

\* __exit__ of a with block over handle h, left with exception exc or none
WithExit(open, h, exc) == open \ {h}

\* a variant of ImageTarget that falls back on a default path
ImageTargetDefault(image_path) ==
    IF image_path = None THEN Some("b.pbm") ELSE image_path

\* save, lines 106-107: the path self.atlas.save is called with, None when
\* it is not called
ImageTarget(image_path) == image_path

----------------------------------------------------------------------------
(* The inputs: the files found on disk and the Fonts a caller constructs.  *)

MetricPaths == {"a.pil", "b.pil"}
ImagePaths == {"a.pbm", "b.pbm"}
\* save is called on this path
SavePath == "b.pil"
SaveImagePath == "b.pbm"

RECURSIVE Concat(_)
Concat(seqs) == IF seqs = <<>> THEN <<>> ELSE Head(seqs) \o Concat(Tail(seqs))

Tables(pool) == UNION {[1..n -> pool] : n \in 0..MaxGlyphs}

\* the two glyphs of the 10x20 example and one of extreme values
ExampleGlyph1 == Glyph(<<65>>, <<6, 0>>, <<0, 0, 6, 16>>, <<0, -16, 6, 0>>)
ExampleGlyph2 == Glyph(<<0>>, <<6, 0>>, <<6, 0, 12, 16>>, <<0, -16, 6, 0>>)
ExtremeGlyph ==
    Glyph(<<7>>, <<-32768, 32767>>, <<1, 2, 3, 255>>, <<-1, 256, -256, 4>>)
\* a glyph struct.pack cannot encode
WideGlyph == Glyph(<<1>>, <<32768, 0>>, <<0, 0, 1, 1>>, <<0, 0, 1, 1>>)

GlyphPool == {ExampleGlyph1, ExampleGlyph2, ExtremeGlyph, WideGlyph}
YSizes == {0, 5, 20, 99, 100}
MemoryAtlas == [pixels |-> "pixA", fp |-> None]

Fonts == {PILFont(MemoryAtlas, y, t) : y \in YSizes, t \in Tables(GlyphPool)}

\* raw 20-byte records, written out byte by byte
Raw1 == <<0, 6, 0, 0, 0, 0, 255, 240, 0, 6, 0, 0, 0, 0, 0, 0, 0, 6, 0, 16>>
Raw2 == <<0, 6, 0, 0, 0, 0, 255, 240, 0, 6, 0, 0, 0, 6, 0, 0, 0, 12, 0, 16>>
Raw3 == <<128, 0, 127, 255, 255, 255, 1, 0, 255, 0, 0, 4, 0, 1, 0, 2, 0, 3,
          0, 255>>
RawPool == {Raw1, Raw2, Raw3}

\* "20", "10", "99"
YTexts == {<<50, 48>>, <<49, 48>>, <<57, 57>>}
\* 0 2 9 ; + - space \n _ a
YBytes == {48, 50, 57, 59, 43, 45, 32, 10, 95, 97}

MetricsBytes(ytext, records, tail) ==
    MAGIC \o ytext \o DATA \o Concat(records) \o tail

\* a valid header and up to MaxGlyphs records
WholeFiles == {MetricsBytes(y, t, <<>>) : y \in YTexts, t \in Tables(RawPool)}

\* the same and a last chunk of 1..19 bytes
CutFiles ==
    {MetricsBytes(<<50, 48>>, t, SubSeq(Raw3, 1, k)) :
        t \in Tables(RawPool), k \in 1..(RECORD_SIZE - 1)}

\* n records
Repeat(raw, n) == [k \in 1..(n * Len(raw)) |-> raw[((k - 1) % Len(raw)) + 1]]

\* a valid header and about CHAR_LIMIT records
BigFiles ==
    {MetricsBytes(<<50, 48>>, <<Repeat(Raw3, n)>>, SubSeq(Raw1, 1, k)) :
        n \in (CHAR_LIMIT - 1)..(CHAR_LIMIT + 1), k \in {0, 5}}

MutationBase == MetricsBytes(<<50, 48>>, <<Raw1, Raw2>>, <<>>)
\* the positions (from 1) of the two literals of the header
LiteralPositions ==
    (1..Len(MAGIC)) \cup
    ((Len(MAGIC) + YSIZE_READ + 1)..(Len(MAGIC) + YSIZE_READ + Len(DATA)))

\* MutationBase with one byte of a literal changed
MutatedFiles ==
    {[MutationBase EXCEPT ![p] = b] :
        p \in LiteralPositions, b \in {0, 59, 255}} \ {MutationBase}

\* every two-byte ysize field over YBytes
YFieldFiles ==
    {MetricsBytes(<<a, b>>, t, <<>>) :
        a \in YBytes, b \in YBytes, t \in {<<>>, <<Raw1>>}}

\* files that end inside the header
ShortFiles ==
    {SubSeq(MutationBase, 1, k) :
        k \in 0..(Len(MAGIC) + YSIZE_READ + Len(DATA) - 1)}

Files == WholeFiles \cup CutFiles \cup BigFiles \cup MutatedFiles \cup YFieldFiles
         \cup ShortFiles

----------------------------------------------------------------------------
(* The state machine.  frame is the call in progress or, when pc is        *)
(* "idle", the call that finished last, with the exception it raised and   *)
(* what it returned.  font is the Font the caller holds.  origin[p] is the *)
(* Font whose save last wrote file p completely; loadedFrom is the file    *)
(* the caller's Font was loaded from; imgSaveCalls counts Image.save.      *)

Frame(op, mpath, ipath, index) ==
    [op |-> op, mpath |-> mpath, ipath |-> ipath, index |-> index,
     exc |-> NoExc, ysize |-> 0, glyphs |-> <<>>,
     atlas |-> None, ret |-> None, item |-> None]

Init ==
    /\ \/ /\ font \in {Some(f) : f \in Fonts}
          /\ fs = [p \in MetricPaths |-> None]
       \/ /\ font = None
          /\ fs \in {[p \in MetricPaths |->
                        IF p = SavePath THEN None ELSE Some(c)] : c \in Files}
    /\ imgfs = [p \in ImagePaths |->
                  IF p = SaveImagePath THEN None ELSE Some("pixB")]
    /\ handles = {}
    /\ pc = "idle"
    /\ frame = Frame("none", "", None, 0)
    /\ ops = 0
    /\ origin = [p \in MetricPaths |-> None]
    /\ loadedFrom = None
    /\ imgSaveCalls = 0

\* load, line 70: with Image.open(image_path) as glyph_atlas
LoadOpenImage(metrics_path, image_path) ==
    /\ pc = "idle"
    /\ ops < MaxOps
    /\ ops' = ops + 1
    /\ IF imgfs[image_path] = None
       THEN /\ frame' = [Frame("load", metrics_path, Some(image_path), 0)
                            EXCEPT !.exc = Exc("ImageOpenError")]
            /\ UNCHANGED <<pc, handles>>
       ELSE /\ frame' = [Frame("load", metrics_path, Some(image_path), 0)
                            EXCEPT !.atlas =
                                Some(ImageOpen(image_path, imgfs[image_path][1]))]
            /\ handles' = handles \cup {ImageHandle(image_path)}
            /\ pc' = "load_open_metrics"
    /\ UNCHANGED <<fs, imgfs, font, origin, loadedFrom, imgSaveCalls>>

\* load, line 71: with open(metrics_path, "rb") as f
LoadOpenMetrics ==
    /\ pc = "load_open_metrics"
    /\ IF fs[frame.mpath] = None
       THEN /\ frame' = [frame EXCEPT !.exc = Exc("FileNotFoundError")]
            /\ pc' = "load_exit_image"
            /\ UNCHANGED handles
       ELSE /\ handles' = handles \cup {FileHandle(frame.mpath)}
            /\ pc' = "load_body"
            /\ UNCHANGED frame
    /\ UNCHANGED <<fs, imgfs, font, ops, origin, loadedFrom, imgSaveCalls>>

\* load, lines 72-91: the body of the inner with block
LoadParse ==
    /\ pc = "load_body"
    /\ LET r == LoadBody(fs[frame.mpath][1])
       IN  frame' = [frame EXCEPT !.exc = r.exc, !.ysize = r.ysize,
                                  !.glyphs = r.glyphs]
    /\ pc' = "load_exit_metrics"
    /\ UNCHANGED <<fs, imgfs, font, handles, ops, origin, loadedFrom,
                   imgSaveCalls>>

\* load: leaving the inner with block closes f
LoadExitMetrics ==
    /\ pc = "load_exit_metrics"
    /\ handles' = WithExit(handles, FileHandle(frame.mpath), frame.exc)
    /\ pc' = IF frame.exc = NoExc THEN "load_return" ELSE "load_exit_image"
    /\ UNCHANGED <<fs, imgfs, font, frame, ops, origin, loadedFrom,
                   imgSaveCalls>>

\* load, line 92: return cls(glyph_atlas.copy(), ysize, glyphs)
LoadReturn ==
    /\ pc = "load_return"
    /\ frame' = [frame EXCEPT !.ret =
                    Some(PILFont(ImageCopy(frame.atlas[1]), frame.ysize,
                                 frame.glyphs))]
    /\ pc' = "load_exit_image"
    /\ UNCHANGED <<fs, imgfs, font, handles, ops, origin, loadedFrom,
                   imgSaveCalls>>

\* load: leaving the outer with block closes the image; the caller
\* receives the Font, or the exception
LoadExitImage ==
    /\ pc = "load_exit_image"
    /\ handles' = WithExit(handles, ImageHandle(frame.ipath[1]), frame.exc)
    /\ pc' = "idle"
    /\ IF frame.exc = NoExc
       THEN /\ font' = frame.ret
            /\ loadedFrom' = Some(frame.mpath)
       ELSE UNCHANGED <<font, loadedFrom>>
    /\ UNCHANGED <<fs, imgfs, frame, ops, origin, imgSaveCalls>>

\* save, lines 106-107: self.atlas.save(image_path), which may fail
SaveImage(metrics_path, image_path) ==
    /\ pc = "idle"
    /\ ops < MaxOps
    /\ font # None
    /\ ops' = ops + 1
    /\ IF ImageTarget(image_path) # None
       THEN /\ imgSaveCalls' = imgSaveCalls + 1
            /\ \/ /\ imgfs' = [imgfs EXCEPT ![ImageTarget(image_path)[1]] =
                                  Some(font[1].atlas.pixels)]
                  /\ frame' = Frame("save", metrics_path, image_path, 0)
                  /\ pc' = "save_open"
               \/ /\ frame' = [Frame("save", metrics_path, image_path, 0)
                                  EXCEPT !.exc = Exc("OSError")]
                  /\ UNCHANGED <<imgfs, pc>>
       ELSE /\ frame' = Frame("save", metrics_path, image_path, 0)
            /\ pc' = "save_open"
            /\ UNCHANGED <<imgfs, imgSaveCalls>>
    /\ UNCHANGED <<fs, font, handles, origin, loadedFrom>>

\* save, line 108: with open(metrics_path, "wb+") as fp, which empties the
\* file, or fails and leaves it
SaveOpen ==
    /\ pc = "save_open"
    /\ \/ /\ fs' = [fs EXCEPT ![frame.mpath] = Some(<<>>)]
          /\ origin' = [origin EXCEPT ![frame.mpath] = None]
          /\ handles' = handles \cup {FileHandle(frame.mpath)}
          /\ pc' = "save_body"
          /\ UNCHANGED frame
       \/ /\ frame' = [frame EXCEPT !.exc = Exc("OSError")]
          /\ pc' = "idle"
          /\ UNCHANGED <<fs, origin, handles>>
    /\ UNCHANGED <<imgfs, font, ops, loadedFrom, imgSaveCalls>>

\* the numbers of bytes already written when one of the fp.write calls of
\* save starts, given all the bytes the body writes: the three writes of
\* the header and those of the first MaxGlyphs records
WritePoints(self, bytes) ==
    LET header == Len(MAGIC) + Len(Str(self.ysize)) + Len(DATA)
        records == (Len(bytes) - header) \div RECORD_SIZE
    IN  {0, Len(MAGIC), Len(MAGIC) + Len(Str(self.ysize))} \cup
        {header + RECORD_SIZE * k : k \in 0..(Min(records, MaxGlyphs) - 1)}

\* save, lines 109-113: the body of the with block; the storage may refuse
\* one of the writes, and what was written before it stays
SaveWrite ==
    /\ pc = "save_body"
    /\ LET r == SaveBody(font[1])
       IN  \/ /\ fs' = [fs EXCEPT ![frame.mpath] = Some(r.bytes)]
              /\ frame' = [frame EXCEPT !.exc = r.exc]
              /\ origin' = [origin EXCEPT ![frame.mpath] =
                               IF r.exc = NoExc THEN font ELSE None]
           \/ \E n \in WritePoints(font[1], r.bytes) :
                 /\ fs' = [fs EXCEPT ![frame.mpath] =
                              Some(SubSeq(r.bytes, 1, n))]
                 /\ frame' = [frame EXCEPT !.exc = Exc("OSError")]
                 /\ UNCHANGED origin
    /\ pc' = "save_exit"
    /\ UNCHANGED <<imgfs, font, handles, ops, loadedFrom, imgSaveCalls>>

\* save: leaving the with block closes fp
SaveExit ==
    /\ pc = "save_exit"
    /\ handles' = WithExit(handles, FileHandle(frame.mpath), frame.exc)
    /\ pc' = "idle"
    /\ UNCHANGED <<fs, imgfs, font, frame, ops, origin, loadedFrom,
                   imgSaveCalls>>

\* the indexes Font[index] is called with on a table of n glyphs
Indexes(n) == (0 - MaxIndex)..MaxIndex \cup {n - 1, n, 0 - n, 0 - n - 1}

\* Font[index], lines 56-57
GetItemCall ==
    /\ pc = "idle"
    /\ ops < MaxOps
    /\ font # None
    /\ ops' = ops + 1
    /\ \E index \in Indexes(Len(font[1].glyphs)) :
          LET r == GetItem(font[1], index)
          IN  frame' = [Frame("getitem", "", None, index)
                           EXCEPT !.exc = IF r.ok THEN NoExc
                                          ELSE Exc("IndexError"),
                                  !.item = r.value]
    /\ UNCHANGED <<fs, imgfs, font, handles, pc, origin, loadedFrom,
                   imgSaveCalls>>

Next ==
    \/ \E m \in MetricPaths, i \in ImagePaths : LoadOpenImage(m, i)
    \/ LoadOpenMetrics
    \/ LoadParse
    \/ LoadExitMetrics
    \/ LoadReturn
    \/ LoadExitImage
    \/ \E i \in {None, Some(SaveImagePath)} : SaveImage(SavePath, i)
    \/ SaveOpen
    \/ SaveWrite
    \/ SaveExit
    \/ GetItemCall

Spec == Init /\ [][Next]_vars

----------------------------------------------------------------------------
(* What the properties below talk about.                                   *)

\* a call of op has finished
Finished(op) == pc = "idle" /\ frame.op = op

\* a load that found its atlas image
LoadedWithImage ==
    Finished("load") /\ imgfs[frame.ipath[1]] # None /\ fs[frame.mpath] # None

\* the bytes of the metrics file of the call
Stream == fs[frame.mpath][1]

HeaderSize == Len(MAGIC) + YSIZE_READ + Len(DATA)

\* the stream starts with the magic literal, two digits and the DATA literal
ValidHeader(w) ==
    /\ Len(w) >= HeaderSize
    /\ SubSeq(w, 1, Len(MAGIC)) = MAGIC
    /\ \A k \in (Len(MAGIC) + 1)..(Len(MAGIC) + YSIZE_READ) : w[k] \in 48..57
    /\ SubSeq(w, Len(MAGIC) + YSIZE_READ + 1, HeaderSize) = DATA

\* two bytes as a big-endian signed 16-bit integer
BigEndian16(hi, lo) ==
    IF hi >= 128 THEN (hi - 256) * 256 + lo ELSE hi * 256 + lo

\* the 10 numbers of a glyph in the order of the record
Fields(g) ==
    <<g.delta[1], g.delta[2],
      g.dst_bbox[1], g.dst_bbox[2], g.dst_bbox[3], g.dst_bbox[4],
      g.src_bbox[1], g.src_bbox[2], g.src_bbox[3], g.src_bbox[4]>>

\* the j-th number of the k-th record of stream w whose header has hdr bytes
RecordValue(w, hdr, k, j) ==
    BigEndian16(w[hdr + RECORD_SIZE * (k - 1) + 2 * j - 1],
                w[hdr + RECORD_SIZE * (k - 1) + 2 * j])

RECURSIVE DecimalValue(_)
DecimalValue(ds) ==
    IF ds = <<>> THEN 0
    ELSE 10 * DecimalValue(SubSeq(ds, 1, Len(ds) - 1)) + (ds[Len(ds)] - 48)

\* bs is the decimal text of n: a minus sign if n < 0, then the digits of
\* |n| without leading zeros
IsDecimalTextOf(bs, n) ==
    LET ds == IF n < 0 THEN Tail(bs) ELSE bs
    IN  /\ bs # <<>>
        /\ n < 0 => bs[1] = 45
        /\ ds # <<>>
        /\ \A k \in 1..Len(ds) : ds[k] \in 48..57
        /\ Len(ds) > 1 => ds[1] # 48
        /\ DecimalValue(ds) = (IF n < 0 THEN 0 - n ELSE n)

SameNumbers(g, h) ==
    g.delta = h.delta /\ g.dst_bbox = h.dst_bbox /\ g.src_bbox = h.src_bbox

----------------------------------------------------------------------------
(* C1.  Round trip: a Font with ysize >= 0 whose glyph numbers are all     *)
(* 16-bit is saved; loading the file written succeeds and gives the same   *)
(* ysize and the same glyphs, field for field and in the same order.       *)
(* origin[p] is the Font whose save wrote file p.                          *)
C1_RoundTrip ==
    (/\ LoadedWithImage
     /\ origin[frame.mpath] # None
     /\ origin[frame.mpath][1].ysize >= 0)
    => LET saved == origin[frame.mpath][1]
       IN  /\ frame.exc = NoExc
           /\ frame.ret # None
           /\ frame.ret[1].ysize = saved.ysize
           /\ Len(frame.ret[1].glyphs) = Len(saved.glyphs)
           /\ \A k \in 1..Len(saved.glyphs) :
                 SameNumbers(frame.ret[1].glyphs[k], saved.glyphs[k])

\* The same for the Fonts whose ysize has two digits, which is what load
\* reads: these do round-trip.
RoundTripTwoDigits ==
    (/\ LoadedWithImage
     /\ origin[frame.mpath] # None
     /\ origin[frame.mpath][1].ysize \in 10..99)
    => LET saved == origin[frame.mpath][1]
       IN  /\ frame.exc = NoExc
           /\ frame.ret # None
           /\ frame.ret[1].ysize = saved.ysize
           /\ Len(frame.ret[1].glyphs) = Len(saved.glyphs)
           /\ \A k \in 1..Len(saved.glyphs) :
                 SameNumbers(frame.ret[1].glyphs[k], saved.glyphs[k])

----------------------------------------------------------------------------
\* the 63 bytes of the example: ysize 20 and the two glyphs of 10x20
ExampleStream ==
    <<80, 73, 76, 102, 111, 110, 116, 10, 59, 59, 59, 59, 59, 59,
      50, 48,
      59, 10, 68, 65, 84, 65, 10,
      0, 6, 0, 0, 0, 0, 255, 240, 0, 6, 0, 0, 0, 0, 0, 0, 0, 6, 0, 16,
      0, 6, 0, 0, 0, 0, 255, 240, 0, 6, 0, 0, 0, 6, 0, 0, 0, 12, 0, 16>>

IsExampleFont(f) ==
    /\ f.ysize = 20
    /\ Len(f.glyphs) = 2
    /\ Fields(f.glyphs[1]) = <<6, 0, 0, -16, 6, 0, 0, 0, 6, 16>>
    /\ Fields(f.glyphs[2]) = <<6, 0, 0, -16, 6, 0, 6, 0, 12, 16>>

(* C2.  The stream a save writes is the magic literal, the decimal text of *)
(* ysize, the DATA literal and one 20-byte record per glyph, in table      *)
(* order, holding delta, dst_bbox, src_bbox as big-endian signed 16-bit    *)
(* integers, and nothing more; a load puts values 0-1 of a record into     *)
(* delta, 2-5 into dst_bbox and 6-9 into src_bbox; the example Font is     *)
(* written as 23 header bytes and 40 record bytes.                         *)
C2_StreamLayout ==
    /\ (Finished("save") /\ frame.exc = NoExc) =>
          LET w == Stream
              n == Len(font[1].glyphs)
              hdr == Len(w) - RECORD_SIZE * n
              ylen == hdr - Len(MAGIC) - Len(DATA)
          IN  /\ ylen >= 1
              /\ SubSeq(w, 1, Len(MAGIC)) = MAGIC
              /\ IsDecimalTextOf(SubSeq(w, Len(MAGIC) + 1, Len(MAGIC) + ylen),
                                 font[1].ysize)
              /\ SubSeq(w, Len(MAGIC) + ylen + 1, hdr) = DATA
              /\ \A k \in 1..n : \A j \in 1..10 :
                    RecordValue(w, hdr, k, j) = Fields(font[1].glyphs[k])[j]
              /\ IsExampleFont(font[1]) => w = ExampleStream
    /\ (Finished("load") /\ frame.exc = NoExc) =>
          \A k \in 1..Len(frame.ret[1].glyphs) : \A j \in 1..10 :
              Fields(frame.ret[1].glyphs[k])[j]
                  = RecordValue(Stream, HeaderSize, k, j)

C2_Witness ==
    /\ Finished("save")
    /\ frame.exc = NoExc
    /\ IsExampleFont(font[1])
    /\ Len(Stream) = 23 + 40

----------------------------------------------------------------------------
\* the bytes after the header of a stream with a valid header
RecordArea(w) == Len(w) - HeaderSize

(* C3.  A load of a stream with a valid header: if the length of the       *)
(* record area is not a multiple of 20, the load fails with the error of   *)
(* a truncated record (struct.error, raised by struct.unpack) and returns  *)
(* no Font; if it is a multiple of 20, 0 included, the load succeeds.      *)
C3_Truncation ==
    (LoadedWithImage /\ ValidHeader(Stream)) =>
        IF RecordArea(Stream) % RECORD_SIZE # 0
        THEN frame.exc.type = "struct.error" /\ frame.ret = None
        ELSE frame.exc = NoExc /\ frame.ret # None

\* The same for the streams of at most CHAR_LIMIT complete records.
TruncationUpToCharLimit ==
    (/\ LoadedWithImage
     /\ ValidHeader(Stream)
     /\ RecordArea(Stream) \div RECORD_SIZE <= CHAR_LIMIT) =>
        IF RecordArea(Stream) % RECORD_SIZE # 0
        THEN frame.exc.type = "struct.error" /\ frame.ret = None
        ELSE frame.exc = NoExc /\ frame.ret # None

----------------------------------------------------------------------------
\* the stream is a valid one but for the byte at position p (from 1) of
\* one of the two literals
OneLiteralByteChanged(w, p) ==
    LET canon == MAGIC \o <<48, 48>> \o DATA
    IN  /\ Len(w) >= HeaderSize
        /\ p \in LiteralPositions
        /\ w[p] # canon[p]
        /\ \A q \in LiteralPositions \ {p} : w[q] = canon[q]
        /\ \A q \in (Len(MAGIC) + 1)..(Len(MAGIC) + YSIZE_READ) :
              w[q] \in 48..57
        /\ RecordArea(w) % RECORD_SIZE = 0

(* C4 as claimed.  A load of a valid stream with one byte of the magic     *)
(* literal or of the DATA literal changed fails with the header error, and *)
(* the offset the error names is the offset of the changed byte.           *)
C4_OffsetOfChangedByte ==
    \A p \in LiteralPositions :
        (LoadedWithImage /\ OneLiteralByteChanged(Stream, p)) =>
            /\ frame.exc.type = "PILFontParsingError"
            /\ frame.exc.seek = p - 1

(* C4 as amended.  Such a load fails with the header error and returns no  *)
(* Font; the offset the error names is the offset at which the literal     *)
(* that holds the changed byte starts (0 for the magic literal, 16 for the *)
(* DATA literal), and the error carries that whole literal as expected and *)
(* the bytes read in its place as actual.                                  *)
C4_OffsetOfLiteral ==
    \A p \in LiteralPositions :
        (LoadedWithImage /\ OneLiteralByteChanged(Stream, p)) =>
            /\ frame.exc.type = "PILFontParsingError"
            /\ frame.ret = None
            /\ IF p <= 14
               THEN /\ frame.exc.seek = 0
                    /\ frame.exc.expected = MAGIC
                    /\ frame.exc.actual = SubSeq(Stream, 1, 14)
               ELSE /\ frame.exc.seek = 16
                    /\ frame.exc.expected = DATA
                    /\ frame.exc.actual = SubSeq(Stream, 17, 23)
            /\ frame.exc.actual[p - frame.exc.seek] # frame.exc.expected[p - frame.exc.seek]

C4_Witness ==
    /\ LoadedWithImage
    /\ OneLiteralByteChanged(Stream, 20)
    /\ frame.exc.type = "PILFontParsingError"
    /\ frame.exc.seek = 16

----------------------------------------------------------------------------
(* C5.  A load of a stream with a valid header and N complete records, for *)
(* any N >= 0, succeeds and returns N glyphs, the glyph at position i      *)
(* carrying the character code i.                                          *)
C5_IndexAssignment ==
    (/\ LoadedWithImage
     /\ ValidHeader(Stream)
     /\ RecordArea(Stream) % RECORD_SIZE = 0) =>
        /\ frame.exc = NoExc
        /\ frame.ret # None
        /\ Len(frame.ret[1].glyphs) = RecordArea(Stream) \div RECORD_SIZE
        /\ \A i \in 0..(Len(frame.ret[1].glyphs) - 1) :
              frame.ret[1].glyphs[i + 1].character = <<i>>

\* The same for N <= CHAR_LIMIT.
IndexAssignmentUpToCharLimit ==
    (/\ LoadedWithImage
     /\ ValidHeader(Stream)
     /\ RecordArea(Stream) % RECORD_SIZE = 0
     /\ RecordArea(Stream) \div RECORD_SIZE <= CHAR_LIMIT) =>
        /\ frame.exc = NoExc
        /\ frame.ret # None
        /\ Len(frame.ret[1].glyphs) = RecordArea(Stream) \div RECORD_SIZE
        /\ \A i \in 0..(Len(frame.ret[1].glyphs) - 1) :
              frame.ret[1].glyphs[i + 1].character = <<i>>

----------------------------------------------------------------------------
\* the bytes load reads for the ysize field, after a magic literal that matched
YField(w) == SubSeq(w, Len(MAGIC) + 1, Min(Len(MAGIC) + YSIZE_READ, Len(w)))

MagicMatched(w) == Len(w) >= Len(MAGIC) /\ SubSeq(w, 1, Len(MAGIC)) = MAGIC

AllDigits(bs) == bs # <<>> /\ \A k \in 1..Len(bs) : bs[k] \in 48..57

Blank(b) == b \in {9, 10, 11, 12, 13, 32}

\* the fields of at most two bytes the parse accepts: a digit, two digits,
\* a sign and a digit, a blank and a digit, a digit and a blank
Accepted(y) ==
    \/ Len(y) = 1 /\ y[1] \in 48..57
    \/ /\ Len(y) = 2
       /\ \/ y[1] \in 48..57 /\ y[2] \in 48..57
          \/ y[1] \in {43, 45} /\ y[2] \in 48..57
          \/ Blank(y[1]) /\ y[2] \in 48..57
          \/ y[1] \in 48..57 /\ Blank(y[2])

\* and the integer each of them stands for
AcceptedValue(y) ==
    IF Len(y) = 1 THEN y[1] - 48
    ELSE IF y[1] \in 48..57 /\ y[2] \in 48..57
         THEN 10 * (y[1] - 48) + (y[2] - 48)
    ELSE IF y[1] = 45 THEN 0 - (y[2] - 48)
    ELSE IF y[2] \in 48..57 THEN y[2] - 48
    ELSE y[1] - 48

(* C6 as claimed.  In a load whose magic literal matched: if the bytes     *)
(* read for ysize are not all decimal digits, the load fails with the      *)
(* error of a malformed integer (ValueError) and returns no Font; if they  *)
(* are, ysize is their decimal value.                                      *)
C6_NonDigitsRejected ==
    (LoadedWithImage /\ MagicMatched(Stream)) =>
        IF AllDigits(YField(Stream))
        THEN /\ frame.exc.type # "ValueError"
             /\ frame.ysize = DecimalValue(YField(Stream))
        ELSE frame.exc.type = "ValueError" /\ frame.ret = None

(* C6 as amended.  In a load whose magic literal matched: the bytes read   *)
(* for ysize are accepted when they are decimal digits, or one digit with  *)
(* a sign or a blank before it or a blank after it; then the load does not *)
(* fail with ValueError and ysize is the integer they stand for (the       *)
(* decimal value of the digits, negated after a minus sign).  Any other    *)
(* field, such as a digit followed by ";", fails with ValueError and no    *)
(* Font is returned.                                                       *)
C6_ParseDecides ==
    (LoadedWithImage /\ MagicMatched(Stream)) =>
        IF Accepted(YField(Stream))
        THEN /\ frame.exc.type # "ValueError"
             /\ frame.ysize = AcceptedValue(YField(Stream))
             /\ AllDigits(YField(Stream)) =>
                   frame.ysize = DecimalValue(YField(Stream))
             /\ frame.ret # None => frame.ret[1].ysize = frame.ysize
        ELSE frame.exc.type = "ValueError" /\ frame.ret = None

C6_Witness ==
    /\ LoadedWithImage
    /\ MagicMatched(Stream)
    /\ YField(Stream) = <<45, 57>>
    /\ frame.exc = NoExc
    /\ frame.ret[1].ysize = -9

----------------------------------------------------------------------------
(* C7 as claimed.  Font[index] on a table of N glyphs returns the glyph at *)
(* position index when 0 <= index < N and fails with IndexError for every  *)
(* other index, the negative ones included.                                *)
C7_OutsideRangeFails ==
    Finished("getitem") =>
        LET n == Len(font[1].glyphs)
        IN  IF 0 <= frame.index /\ frame.index < n
            THEN /\ frame.exc = NoExc
                 /\ frame.item = Some(font[1].glyphs[frame.index + 1])
            ELSE frame.exc.type = "IndexError"

(* C7 as amended.  Font[index] returns the glyph at position index when    *)
(* 0 <= index < N, the glyph at position N + index when -N <= index < 0,   *)
(* and fails with IndexError for index >= N and for index < -N.            *)
C7_IndexWraps ==
    Finished("getitem") =>
        LET n == Len(font[1].glyphs)
        IN  IF 0 <= frame.index /\ frame.index < n
            THEN /\ frame.exc = NoExc
                 /\ frame.item = Some(font[1].glyphs[frame.index + 1])
            ELSE IF 0 - n <= frame.index /\ frame.index < 0
            THEN /\ frame.exc = NoExc
                 /\ frame.item = Some(font[1].glyphs[n + frame.index + 1])
            ELSE frame.exc.type = "IndexError" /\ frame.item = None

C7_Witness ==
    /\ Finished("getitem")
    /\ Len(font[1].glyphs) = 2
    /\ frame.index = -1
    /\ frame.item = Some(font[1].glyphs[2])

----------------------------------------------------------------------------
(* C8.  No step of a save changes the Font; and no step of a save called   *)
(* without an image path calls the image backend's save or changes an      *)
(* image file, or a metrics file other than the one at metrics_path.       *)
C8_SaveWritesMetricsOnly ==
    [][frame'.op = "save" =>
         /\ font' = font
         /\ frame'.ipath = None =>
               /\ imgSaveCalls' = imgSaveCalls
               /\ imgfs' = imgfs
               /\ \A p \in MetricPaths \ {frame'.mpath} : fs'[p] = fs[p]]_vars

C8_Witness ==
    /\ Finished("save")
    /\ frame.ipath = None
    /\ frame.exc = NoExc
    /\ fs[frame.mpath] # None
    /\ imgSaveCalls = 0
    /\ imgfs[SaveImagePath] = None

----------------------------------------------------------------------------
(* C9.  When a call has finished, with or without an exception, no handle  *)
(* is open; and the Font a load returned is the caller's Font, whose atlas *)
(* holds the pixels of the image file and no file.                         *)
C9_HandlesClosed ==
    pc = "idle" =>
        /\ handles = {}
        /\ (frame.op = "load" /\ frame.exc = NoExc) =>
              /\ font = frame.ret
              /\ font[1].atlas.fp = None
              /\ Some(font[1].atlas.pixels) = imgfs[frame.ipath[1]]

C9_Witness ==
    /\ Finished("load")
    /\ frame.exc.type = "struct.error"
    /\ frame.atlas # None
    /\ handles = {}

----------------------------------------------------------------------------
\* the ysize field is the text of an integer in 10..99
CanonicalTwoDigits(w) ==
    /\ Len(w) >= Len(MAGIC) + YSIZE_READ
    /\ w[Len(MAGIC) + 1] \in 49..57
    /\ w[Len(MAGIC) + 2] \in 48..57

\* the Font with the character of every glyph replaced
Recharactered(f) ==
    [f EXCEPT !.glyphs = [k \in 1..Len(f.glyphs) |->
                            [f.glyphs[k] EXCEPT !.character = <<255>>]]]

(* C10.  A Font loaded from a stream whose ysize field is the text of an   *)
(* integer in 10..99 and saved unmodified to another path is written as    *)
(* the very bytes it was loaded from; and the bytes a save writes are the  *)
(* bytes it writes for the same Font with other characters.                *)
C10_SaveAfterLoad ==
    (Finished("save") /\ frame.exc = NoExc) =>
        /\ (/\ loadedFrom # None
            /\ loadedFrom # Some(frame.mpath)
            /\ CanonicalTwoDigits(fs[loadedFrom[1]][1])) =>
               fs[frame.mpath] = fs[loadedFrom[1]]
        /\ Stream = SaveBody(Recharactered(font[1])).bytes

C10_Witness ==
    /\ Finished("save")
    /\ frame.exc = NoExc
    /\ loadedFrom = Some("a.pil")
    /\ CanonicalTwoDigits(fs["a.pil"][1])
    /\ Len(font[1].glyphs) = 2
    /\ fs[frame.mpath] = fs["a.pil"]

=============================================================================
